---- MODULE Spec2Model ----
(***************************************************************************)
(* Model of the house-cleaning booking page                                *)
(* (src/app/(Landing)/booking/house-cleaning/page.tsx): the client-side    *)
(* price calculation, the room counters, the hand-off to the date/time     *)
(* step and the booking POST.                                              *)
(*                                                                         *)
(* JavaScript numbers are IEEE-754 binary64.  The price formula multiplies *)
(* by coefficients such as 0.7 and 0.95 that are not representable, so the *)
(* arithmetic is modelled bit-exactly: a Number is a record [m, e] standing*)
(* for m * 2^e, m an arbitrary-precision natural kept as a little-endian   *)
(* sequence of 15-bit limbs, and every operation rounds to 53 significant  *)
(* bits, ties to even.                                                     *)
(***************************************************************************)
EXTENDS Integers, Sequences, FiniteSets, TLC

(***************************************************************************)
(* Arbitrary-precision naturals (TLC integers are 32 bits wide).           *)
(***************************************************************************)
RECURSIVE Pow2(_)
Pow2(k) == IF k = 0 THEN 1 ELSE 2 * Pow2(k - 1)

\* limbs hold 15 bits, so that a product of two limbs plus carries fits 31 bits
Base == Pow2(15)

RECURSIVE BigNorm(_)
BigNorm(a) ==
    IF a = <<>> THEN a
    ELSE IF a[Len(a)] = 0 THEN BigNorm(SubSeq(a, 1, Len(a) - 1)) ELSE a

RECURSIVE BigFromInt(_)
BigFromInt(n) == IF n = 0 THEN <<>> ELSE <<n % Base>> \o BigFromInt(n \div Base)

RECURSIVE BigToInt(_)
BigToInt(a) == IF a = <<>> THEN 0 ELSE a[1] + Base * BigToInt(Tail(a))

Limb(a, i) == IF i >= 1 /\ i <= Len(a) THEN a[i] ELSE 0

RECURSIVE BigAddC(_, _, _, _)
BigAddC(a, b, i, c) ==
    IF i > Len(a) /\ i > Len(b)
    THEN (IF c = 0 THEN <<>> ELSE <<c>>)
    ELSE LET s == Limb(a, i) + Limb(b, i) + c
         IN  <<s % Base>> \o BigAddC(a, b, i + 1, s \div Base)

BigAdd(a, b) == BigAddC(a, b, 1, 0)

RECURSIVE BigSubC(_, _, _, _)
BigSubC(a, b, i, c) ==
    IF i > Len(a) THEN <<>>
    ELSE LET d == Limb(a, i) - Limb(b, i) - c
         IN  IF d < 0 THEN <<d + Base>> \o BigSubC(a, b, i + 1, 1)
                      ELSE <<d>> \o BigSubC(a, b, i + 1, 0)

\* a - b for a >= b
BigSub(a, b) == BigNorm(BigSubC(a, b, 1, 0))

RECURSIVE BigMulSmallC(_, _, _, _)
BigMulSmallC(a, k, i, c) ==
    IF i > Len(a)
    THEN (IF c = 0 THEN <<>> ELSE <<c>>)
    ELSE LET p == a[i] * k + c
         IN  <<p % Base>> \o BigMulSmallC(a, k, i + 1, p \div Base)

\* a * k for 0 <= k < Base
BigMulSmall(a, k) == BigNorm(BigMulSmallC(a, k, 1, 0))

RECURSIVE BigMul(_, _)
BigMul(a, b) ==
    IF b = <<>> \/ a = <<>> THEN <<>>
    ELSE BigNorm(BigAdd(BigMulSmall(a, b[1]), <<0>> \o BigMul(a, Tail(b))))

RECURSIVE IntBitLen(_)
IntBitLen(n) == IF n = 0 THEN 0 ELSE 1 + IntBitLen(n \div 2)

BitLen(a) == IF a = <<>> THEN 0 ELSE 15 * (Len(a) - 1) + IntBitLen(a[Len(a)])

Zeros(q) == [i \in 1..q |-> 0]

\* a * 2^s
BigShl(a, s) ==
    IF a = <<>> THEN <<>>
    ELSE Zeros(s \div 15) \o BigMulSmall(a, Pow2(s % 15))

\* floor(a / 2^s)
BigShr(a, s) ==
    LET q == s \div 15
        r == s % 15
        d == IF q >= Len(a) THEN <<>> ELSE SubSeq(a, q + 1, Len(a))
    IN  BigNorm([i \in 1..Len(d) |->
                   (d[i] \div Pow2(r)) + (Limb(d, i + 1) % Pow2(r)) * Pow2(15 - r)])

\* a mod 2^s
BigLow(a, s) == BigSub(a, BigShl(BigShr(a, s), s))

BigIsOdd(a) == a # <<>> /\ a[1] % 2 = 1

RECURSIVE BigCmpFrom(_, _, _)
BigCmpFrom(a, b, i) ==
    IF i = 0 THEN 0
    ELSE IF a[i] < b[i] THEN -1
    ELSE IF a[i] > b[i] THEN 1
    ELSE BigCmpFrom(a, b, i - 1)

\* -1, 0, 1 as a < b, a = b, a > b (both normalised)
BigCmp(a, b) ==
    IF Len(a) < Len(b) THEN -1
    ELSE IF Len(a) > Len(b) THEN 1
    ELSE BigCmpFrom(a, b, Len(a))

RECURSIVE BigDivSmallFrom(_, _, _, _)
BigDivSmallFrom(a, d, i, r) ==
    IF i = 0 THEN [q |-> <<>>, r |-> r]
    ELSE LET cur  == r * Base + a[i]
             rest == BigDivSmallFrom(a, d, i - 1, cur % d)
         IN  [q |-> rest.q \o <<cur \div d>>, r |-> rest.r]

\* quotient and remainder of a by d, 0 < d < Base
BigDivSmall(a, d) ==
    LET x == BigDivSmallFrom(a, d, Len(a), 0)
    IN  [q |-> BigNorm(x.q), r |-> x.r]

RECURSIVE IntTrailingZeros(_)
IntTrailingZeros(n) == IF n % 2 = 1 THEN 0 ELSE 1 + IntTrailingZeros(n \div 2)

RECURSIVE BigTrailingZeros(_)
BigTrailingZeros(a) ==
    IF a[1] = 0 THEN 15 + BigTrailingZeros(Tail(a)) ELSE IntTrailingZeros(a[1])

(***************************************************************************)
(* IEEE-754 binary64, non-negative finite values in the normal range.      *)
(***************************************************************************)
MantissaBits == 53

\* the unique representation of m * 2^e: m odd, or zero
NumCanon(m, e) ==
    IF m = <<>> THEN [m |-> <<>>, e |-> 0]
    ELSE LET tz == BigTrailingZeros(m)
         IN  [m |-> BigShr(m, tz), e |-> e + tz]

\* the binary64 nearest to m * 2^e, ties to even
NumRound(m, e) ==
    LET len == BitLen(m)
    IN  IF len <= MantissaBits THEN NumCanon(m, e)
        ELSE LET s    == len - MantissaBits
                 q    == BigShr(m, s)
                 r    == BigLow(m, s)
                 half == BigShl(<<1>>, s - 1)
                 c    == BigCmp(r, half)
                 up   == c = 1 \/ (c = 0 /\ BigIsOdd(q))
             IN  NumCanon(IF up THEN BigAdd(q, <<1>>) ELSE q, e + s)

NumFromInt(n) == NumCanon(BigFromInt(n), 0)

\* the Number a decimal literal num/den denotes (0 < den < Base): the quotient
\* is taken to 60 fractional bits and the remainder kept as a sticky bit
NumLiteral(num, den) ==
    LET x == BigDivSmall(BigShl(BigFromInt(num), 60), den)
    IN  NumRound(BigAdd(BigShl(x.q, 1), IF x.r = 0 THEN <<>> ELSE <<1>>), -61)

NumMul(x, y) == NumRound(BigMul(x.m, y.m), x.e + y.e)

\* x - y for x >= y
NumSub(x, y) ==
    LET e == IF x.e < y.e THEN x.e ELSE y.e
    IN  NumRound(BigSub(BigShl(x.m, x.e - e), BigShl(y.m, y.e - e)), e)

\* a rounding to the nearest integer in which a tie goes down
MathRound_tieDown(x) ==
    IF x.e >= 0 THEN BigToInt(BigShl(x.m, x.e))
    ELSE BigToInt(BigShr(BigAdd(x.m, BigSub(BigShl(<<1>>, (-x.e) - 1), <<1>>)), -x.e))

\* Math.round: the nearest integer, a tie going up
MathRound(x) ==
    IF x.e >= 0 THEN BigToInt(BigShl(x.m, x.e))
    ELSE BigToInt(BigShr(BigAdd(x.m, BigShl(<<1>>, (-x.e) - 1)), -x.e))

(***************************************************************************)
(* Values of the page.                                                     *)
(***************************************************************************)
\* JavaScript's undefined and null where a string may stand, and the empty object {}
Undefined == "<undefined>"
Null == "<null>"
EmptyObject == [k \in {} |-> 0]

FrontendRooms ==
    {"Living Room", "Terrace", "Bedroom", "Bathroom", "Kitchen", "Dining", "Garage"}

BackendRooms ==
    {"Living Room", "Bedrooms", "Bathrooms", "Kitchen", "Dining Room",
     "Terrace/Balcony", "Garage", "Study/Office"}

\* a renaming table in which two labels of the page share a backend label
roomMapping_shared ==
    [r \in FrontendRooms |->
        CASE r = "Living Room" -> "Living Room"
          [] r = "Terrace"     -> "Living Room"
          [] r = "Bedroom"     -> "Bedrooms"
          [] r = "Bathroom"    -> "Bathrooms"
          [] r = "Kitchen"     -> "Kitchen"
          [] r = "Dining"      -> "Dining Room"
          [] r = "Garage"      -> "Garage"]

roomMapping ==
    [r \in FrontendRooms |->
        CASE r = "Living Room" -> "Living Room"
          [] r = "Terrace"     -> "Terrace/Balcony"
          [] r = "Bedroom"     -> "Bedrooms"
          [] r = "Bathroom"    -> "Bathrooms"
          [] r = "Kitchen"     -> "Kitchen"
          [] r = "Dining"      -> "Dining Room"
          [] r = "Garage"      -> "Garage"]

\* the forEach of mapRoomsToBackend over the keys still to visit
RECURSIVE MapRoomsFold(_, _, _)
MapRoomsFold(frontendItems, keys, backendItems) ==
    IF keys = {} THEN backendItems
    ELSE LET frontendKey == CHOOSE k \in keys : TRUE
             rest        == keys \ {frontendKey}
         IN  IF frontendKey \in DOMAIN roomMapping
                /\ roomMapping[frontendKey] \in DOMAIN backendItems
             THEN MapRoomsFold(frontendItems, rest,
                     [backendItems EXCEPT ![roomMapping[frontendKey]] =
                                              frontendItems[frontendKey]])
             ELSE MapRoomsFold(frontendItems, rest, backendItems)

\* the same forEach over Object.keys(frontendItems) in the order it lists them
RECURSIVE MapRoomsForEach(_, _, _, _)
MapRoomsForEach(frontendItems, keys, i, backendItems) ==
    IF i > Len(keys) THEN backendItems
    ELSE LET frontendKey == keys[i]
         IN  IF frontendKey \in DOMAIN roomMapping
                /\ roomMapping[frontendKey] \in DOMAIN backendItems
             THEN MapRoomsForEach(frontendItems, keys, i + 1,
                     [backendItems EXCEPT ![roomMapping[frontendKey]] =
                                              frontendItems[frontendKey]])
             ELSE MapRoomsForEach(frontendItems, keys, i + 1, backendItems)

mapRoomsToBackendInOrder(frontendItems, keys) ==
    MapRoomsForEach(frontendItems, keys, 1, [b \in BackendRooms |-> 0])

mapRoomsToBackend(frontendItems) ==
    MapRoomsFold(frontendItems, DOMAIN frontendItems, [b \in BackendRooms |-> 0])

RECURSIVE SumValues(_, _)
SumValues(obj, keys) ==
    IF keys = {} THEN 0
    ELSE LET k == CHOOSE x \in keys : TRUE
         IN  obj[k] + SumValues(obj, keys \ {k})

\* Object.values(obj).reduce((sum, count) => sum + count, 0)
SumOfValues(obj) == SumValues(obj, DOMAIN obj)

(***************************************************************************)
(* calculateCleaningPrice                                                  *)
(***************************************************************************)
CLEANING_CATEGORIES ==
    [c \in {"Standard Cleaning", "Deep Cleaning", "Move-in Cleaning", "Move-out Cleaning"} |->
        CASE c = "Standard Cleaning" -> [basePrice |-> 8000,  pricePerRoom |-> 1200]
          [] c = "Deep Cleaning"     -> [basePrice |-> 15000, pricePerRoom |-> 2000]
          [] c = "Move-in Cleaning"  -> [basePrice |-> 20000, pricePerRoom |-> 2500]
          [] c = "Move-out Cleaning" -> [basePrice |-> 22000, pricePerRoom |-> 2800]]

\* the multipliers and discounts in tenths and hundredths, as the source writes them
PackageTenths ==
    [p \in {"Basic Package", "Standard Package", "Premium Package", "Luxury Package"} |->
        CASE p = "Basic Package"    -> 8
          [] p = "Standard Package" -> 10
          [] p = "Premium Package"  -> 14
          [] p = "Luxury Package"   -> 18]

SizeTenths ==
    [h \in {"studio", "small", "medium", "large"} |->
        CASE h = "studio" -> 7
          [] h = "small"  -> 10
          [] h = "medium" -> 15
          [] h = "large"  -> 22]

DiscountHundredths ==
    [f \in {"one-time", "monthly", "bi-weekly", "weekly"} |->
        CASE f = "one-time"  -> 0
          [] f = "monthly"   -> 5
          [] f = "bi-weekly" -> 10
          [] f = "weekly"    -> 15]

\* the tables hold the Numbers the decimal literals denote
CLEANING_PACKAGES ==
    [p \in DOMAIN PackageTenths |-> [multiplier |-> NumLiteral(PackageTenths[p], 10)]]

HOME_SIZES ==
    [h \in DOMAIN SizeTenths |-> [multiplier |-> NumLiteral(SizeTenths[h], 10)]]

FREQUENCIES ==
    [f \in DOMAIN DiscountHundredths |-> [discount |-> NumLiteral(DiscountHundredths[f], 100)]]

ZeroPrice == [finalPrice |-> 0, breakdown |-> EmptyObject]

\* a destructuring default: it applies to a property that is undefined
OrDefault(v, d) == IF v = Undefined THEN d ELSE v

\* lines 157-178, for recognised options and totalItems > 0
PriceOf(categoryData, packageData, sizeData, frequencyData, totalItems) ==
    LET baseTotal ==
            NumMul(NumMul(NumFromInt(categoryData.basePrice
                                       + totalItems * categoryData.pricePerRoom),
                          packageData.multiplier),
                   sizeData.multiplier)
        discountedPrice ==
            NumMul(baseTotal, NumSub(NumFromInt(1), frequencyData.discount))
        finalPrice == MathRound(discountedPrice)
    IN  [finalPrice |-> finalPrice,
         breakdown |->
            [basePrice         |-> categoryData.basePrice,
             roomCount         |-> totalItems,
             pricePerRoom      |-> categoryData.pricePerRoom,
             packageMultiplier |-> packageData.multiplier,
             sizeMultiplier    |-> sizeData.multiplier,
             frequencyDiscount |-> frequencyData.discount,
             subtotal          |-> baseTotal,
             discount          |-> NumSub(baseTotal, discountedPrice),
             total             |-> finalPrice]]

\* the members every object literal inherits from Object.prototype: table[key]
\* finds them when the table has no entry of its own under the key
ObjectPrototypeKeys ==
    {"constructor", "toString", "toLocaleString", "valueOf", "hasOwnProperty",
     "isPrototypeOf", "propertyIsEnumerable", "__proto__"}

\* table[key] is truthy: an entry of the table, or an inherited member
HasProperty(table, key) == key \in DOMAIN table \/ key \in ObjectPrototypeKeys

\* table[key].field, which an inherited member does not have
Field(table, key, field) ==
    IF key \in DOMAIN table THEN table[key][field] ELSE Undefined

\* the Number that arithmetic on undefined produces
NaN == [nan |-> TRUE]

\* lines 157-178 when a lookup found an inherited member: its basePrice,
\* pricePerRoom, multiplier or discount is undefined and the products are NaN
NaNPrice(category, packageName, homeSize, frequency, totalItems) ==
    [finalPrice |-> NaN,
     breakdown |->
        [basePrice         |-> Field(CLEANING_CATEGORIES, category, "basePrice"),
         roomCount         |-> totalItems,
         pricePerRoom      |-> Field(CLEANING_CATEGORIES, category, "pricePerRoom"),
         packageMultiplier |-> Field(CLEANING_PACKAGES, packageName, "multiplier"),
         sizeMultiplier    |-> Field(HOME_SIZES, homeSize, "multiplier"),
         frequencyDiscount |-> Field(FREQUENCIES, frequency, "discount"),
         subtotal          |->
            IF /\ category \in DOMAIN CLEANING_CATEGORIES
               /\ packageName \in DOMAIN CLEANING_PACKAGES
               /\ homeSize \in DOMAIN HOME_SIZES
            THEN NumMul(NumMul(NumFromInt(CLEANING_CATEGORIES[category].basePrice
                                  + totalItems * CLEANING_CATEGORIES[category].pricePerRoom),
                               CLEANING_PACKAGES[packageName].multiplier),
                        HOME_SIZES[homeSize].multiplier)
            ELSE NaN,
         discount          |-> NaN,
         total             |-> NaN]]

\* the function without its test of a zero total
calculateCleaningPrice_noZeroTest(items, options) ==
    LET category    == OrDefault(options.category, "Standard Cleaning")
        packageName == OrDefault(options.package, "Standard Package")
        homeSize    == OrDefault(options.homeSize, "small")
        frequency   == OrDefault(options.frequency, "one-time")
    IN  IF \/ ~HasProperty(CLEANING_CATEGORIES, category)
           \/ ~HasProperty(CLEANING_PACKAGES, packageName)
           \/ ~HasProperty(HOME_SIZES, homeSize)
           \/ ~HasProperty(FREQUENCIES, frequency)
        THEN ZeroPrice
        ELSE IF \/ category \notin DOMAIN CLEANING_CATEGORIES
                \/ packageName \notin DOMAIN CLEANING_PACKAGES
                \/ homeSize \notin DOMAIN HOME_SIZES
                \/ frequency \notin DOMAIN FREQUENCIES
        THEN NaNPrice(category, packageName, homeSize, frequency,
                      SumOfValues(mapRoomsToBackend(items)))
        ELSE PriceOf(CLEANING_CATEGORIES[category], CLEANING_PACKAGES[packageName],
                     HOME_SIZES[homeSize], FREQUENCIES[frequency],
                     SumOfValues(mapRoomsToBackend(items)))

calculateCleaningPrice(items, options) ==
    LET category    == OrDefault(options.category, "Standard Cleaning")
        packageName == OrDefault(options.package, "Standard Package")
        homeSize    == OrDefault(options.homeSize, "small")
        frequency   == OrDefault(options.frequency, "one-time")
    IN  IF \/ ~HasProperty(CLEANING_CATEGORIES, category)
           \/ ~HasProperty(CLEANING_PACKAGES, packageName)
           \/ ~HasProperty(HOME_SIZES, homeSize)
           \/ ~HasProperty(FREQUENCIES, frequency)
        THEN ZeroPrice
        ELSE LET backendItems == mapRoomsToBackend(items)
                 totalItems   == SumOfValues(backendItems)
             IN  IF totalItems = 0 THEN ZeroPrice
                 ELSE IF \/ category \notin DOMAIN CLEANING_CATEGORIES
                         \/ packageName \notin DOMAIN CLEANING_PACKAGES
                         \/ homeSize \notin DOMAIN HOME_SIZES
                         \/ frequency \notin DOMAIN FREQUENCIES
                 THEN NaNPrice(category, packageName, homeSize, frequency, totalItems)
                 ELSE PriceOf(CLEANING_CATEGORIES[category], CLEANING_PACKAGES[packageName],
                              HOME_SIZES[homeSize], FREQUENCIES[frequency], totalItems)

(***************************************************************************)
(* The session store the page reads: document.cookie and localStorage.     *)
(***************************************************************************)
\* JSON values, tagged so that values of different types compare
JsUndefined == [t |-> "undefined", v |-> ""]
JsNull      == [t |-> "null", v |-> ""]
JsString(s) == [t |-> "string", v |-> s]
JsNumber(s) == [t |-> "number", v |-> s]
JsObject(s) == [t |-> "object", v |-> s]

\* ToBoolean of a JSON value
Truthy(x) ==
    /\ x.t \notin {"undefined", "null"}
    /\ ~(x.t = "string" /\ x.v = "")
    /\ ~(x.t = "number" /\ x.v = "0")

\* ToBoolean of a string or null
TruthyString(x) == x # Null /\ x # ""

\* document.cookie is a list of name=value pairs; a pair is kept as its name
\* and the pieces of its value between "=" signs, so that pair.split("=") is
\* <<name>> \o parts and pair.trim().startsWith("auth_token=") is
\* name = "auth_token"

RECURSIVE FindAuthCookie(_, _)
FindAuthCookie(cookies, i) ==
    IF i > Len(cookies) THEN <<>>
    ELSE IF cookies[i].name = "auth_token" THEN <<cookies[i]>>
    ELSE FindAuthCookie(cookies, i + 1)

getAuthToken(cookies, storage) ==
    LET authCookie == FindAuthCookie(cookies, 1)
    IN  IF authCookie # <<>>
        THEN authCookie[1].parts[1]
        ELSE IF TruthyString(storage["auth_token"])
             THEN storage["auth_token"]
             ELSE storage["token"]

\* JSON.parse of the texts the model stores under user_data
JSONParse(text) ==
    CASE text = "{\"user_id\":\"u1\",\"id\":\"u9\"}" ->
            [ok |-> TRUE, isNull |-> FALSE, user_id |-> JsString("u1"), id |-> JsString("u9")]
      [] text = "{\"user_id\":\"u1\"}" ->
            [ok |-> TRUE, isNull |-> FALSE, user_id |-> JsString("u1"), id |-> JsUndefined]
      [] text = "{\"id\":\"u2\"}" ->
            [ok |-> TRUE, isNull |-> FALSE, user_id |-> JsUndefined, id |-> JsString("u2")]
      [] text = "{\"user_id\":0,\"id\":7}" ->
            [ok |-> TRUE, isNull |-> FALSE, user_id |-> JsNumber("0"), id |-> JsNumber("7")]
      [] text = "{\"user_id\":\"\"}" ->
            [ok |-> TRUE, isNull |-> FALSE, user_id |-> JsString(""), id |-> JsUndefined]
      [] text = "{\"name\":\"Ada\"}" ->
            [ok |-> TRUE, isNull |-> FALSE, user_id |-> JsUndefined, id |-> JsUndefined]
      [] text = "null" ->
            [ok |-> TRUE, isNull |-> TRUE, user_id |-> JsUndefined, id |-> JsUndefined]
      [] OTHER ->
            [ok |-> FALSE, isNull |-> FALSE, user_id |-> JsUndefined, id |-> JsUndefined]

Returns(v) == [threw |-> FALSE, message |-> "", value |-> v]
Throws(msg) == [threw |-> TRUE, message |-> msg, value |-> JsUndefined]

\* getUserData without the test of the user id
getUserData_noIdTest(storage) ==
    LET userData == storage["user_data"]
    IN  IF ~TruthyString(userData)
        THEN Throws("User not found. Please log in again.")
        ELSE LET user == JSONParse(userData)
             IN  IF ~user.ok \/ user.isNull
                 THEN Throws("Invalid user data. Please log in again.")
                 ELSE Returns(IF Truthy(user.user_id) THEN user.user_id ELSE user.id)

getUserData(storage) ==
    LET userData == storage["user_data"]
    IN  IF ~TruthyString(userData)
        THEN Throws("User not found. Please log in again.")
        ELSE LET user == JSONParse(userData)
             IN  IF ~user.ok \/ user.isNull
                 THEN Throws("Invalid user data. Please log in again.")
                 ELSE LET userId == IF Truthy(user.user_id) THEN user.user_id ELSE user.id
                      IN  IF ~Truthy(userId)
                          THEN Throws("Invalid user data. Please log in again.")
                          ELSE Returns(userId)

(***************************************************************************)
(* The page: HouseCleaningPage's state and handlers.                       *)
(***************************************************************************)
VARIABLES
    items, selectedOptions, customerInfo, totalItems, isDateSelectorOpen,
    pricing, loading, error,    \* useState of HouseCleaningPage
    updateQueue,                \* the state updaters queued since the last render
    dashboard,                  \* BookingsDashboard: its useState, the route and the
                                \* progress of fetchBookings
    cookies, storage,           \* document.cookie and localStorage
    started,                    \* number of submission attempts begun
    validation,                 \* the attempt handleContinue last handled
    calls,                      \* the invocations of bookCleaningService
    fnArgs, fnRet               \* the arguments handed to the function or handler
                                \* under examination, and its result

pageVars == <<items, selectedOptions, customerInfo, totalItems, isDateSelectorOpen,
              pricing, loading, dashboard, error, updateQueue>>
envVars == <<cookies, storage>>
attemptVars == <<started, validation, calls>>
fnVars == <<fnArgs, fnRet>>
vars == <<pageVars, envVars, attemptVars, fnVars>>

NoRoomsMessage == "Please select at least one room to clean"
AuthRequiredMessage == "Authentication required. Please log in again."

getTurnaround(category) ==
    CASE category = "Standard Cleaning" -> "2-4 hours"
      [] category = "Deep Cleaning"     -> "4-6 hours"
      [] category = "Move-in Cleaning"  -> "5-8 hours"
      [] category = "Move-out Cleaning" -> "5-8 hours"
      [] OTHER                          -> "2-4 hours"

\* a formatting that drops the space with the minutes
getEstimatedTime_trimmed(total) ==
    LET totalMinutes == 60 + total * 30
        hours        == totalMinutes \div 60
        minutes      == totalMinutes % 60
    IN  ToString(hours) \o "h" \o (IF minutes > 0 THEN " " \o ToString(minutes) \o "m" ELSE "")

getEstimatedTime(total) ==
    LET totalMinutes == 60 + total * 30
        hours        == totalMinutes \div 60
        minutes      == totalMinutes % 60
    IN  ToString(hours) \o "h " \o (IF minutes > 0 THEN ToString(minutes) \o "m" ELSE "")

\* the effects that follow a render in which items or selectedOptions changed;
\* React runs them, and the render they cause, before it handles the next event
\* a total that counts the living rooms only
TotalItemsEffect_livingRoomOnly(newItems) == newItems["Living Room"]

TotalItemsEffect(newItems) == SumOfValues(newItems)
\* a pricing effect that runs when items changed and not when only the
\* options did
PricingEffect_itemsOnly(newItems, newOptions) ==
    IF newItems = items THEN pricing ELSE calculateCleaningPrice(newItems, newOptions)

PricingEffect(newItems, newOptions) == calculateCleaningPrice(newItems, newOptions)

handleIncrement(item) ==
    /\ items' = [items EXCEPT ![item] = @ + 1]
    /\ totalItems' = TotalItemsEffect(items')
    /\ pricing' = PricingEffect(items', selectedOptions)
    /\ UNCHANGED <<selectedOptions, customerInfo, isDateSelectorOpen, loading, dashboard, updateQueue, error>>
    /\ UNCHANGED <<envVars, attemptVars, fnVars>>

handleDecrement(item) ==
    /\ items' = IF items[item] > 0 THEN [items EXCEPT ![item] = @ - 1] ELSE items
    /\ totalItems' = TotalItemsEffect(items')
    /\ pricing' = PricingEffect(items', selectedOptions)
    /\ UNCHANGED <<selectedOptions, customerInfo, isDateSelectorOpen, loading, dashboard, updateQueue, error>>
    /\ UNCHANGED <<envVars, attemptVars, fnVars>>

handleOptionChange(key, value) ==
    /\ selectedOptions' = [selectedOptions EXCEPT ![key] = value]
    /\ pricing' = PricingEffect(items, selectedOptions')
    /\ UNCHANGED <<items, customerInfo, totalItems, isDateSelectorOpen, loading, dashboard, updateQueue, error>>
    /\ UNCHANGED <<envVars, attemptVars, fnVars>>

\* The handlers above are a click as the browser delivers it: React renders and
\* runs the effects before the next event. The definitions below are the
\* handlers alone, for calls that follow one another before the component
\* renders again: items, selectedOptions, totalItems and pricing stay those of
\* the last render, which is what the handlers' closures read, and the
\* updaters given to setItems and setSelectedOptions wait in updateQueue.
handleIncrementCall(item) ==
    /\ updateQueue' = Append(updateQueue, [set |-> "items", item |-> item, by |-> 1])
    /\ UNCHANGED <<items, selectedOptions, customerInfo, totalItems, isDateSelectorOpen,
                   pricing, loading, dashboard, error>>
    /\ UNCHANGED <<envVars, attemptVars, fnVars>>

handleDecrementCall(item) ==
    /\ updateQueue' = IF items[item] > 0
                      THEN Append(updateQueue, [set |-> "items", item |-> item, by |-> -1])
                      ELSE updateQueue
    /\ UNCHANGED <<items, selectedOptions, customerInfo, totalItems, isDateSelectorOpen,
                   pricing, loading, dashboard, error>>
    /\ UNCHANGED <<envVars, attemptVars, fnVars>>

handleOptionChangeCall(key, value) ==
    /\ updateQueue' = Append(updateQueue, [set |-> "selectedOptions", key |-> key, value |-> value])
    /\ UNCHANGED <<items, selectedOptions, customerInfo, totalItems, isDateSelectorOpen,
                   pricing, loading, dashboard, error>>
    /\ UNCHANGED <<envVars, attemptVars, fnVars>>

\* currentRequests.filter((id) => id !== requestId)
RECURSIVE Filter(_, _, _)
Filter(list, id, i) ==
    IF i > Len(list) THEN <<>>
    ELSE (IF list[i] # id THEN <<list[i]>> ELSE <<>>) \o Filter(list, id, i + 1)

\* the click on a special-request checkbox, with the render that follows;
\* fnArgs keeps the isChecked each id was last called with
handleSpecialRequestChange(requestId, isChecked) ==
    /\ customerInfo' =
          [customerInfo EXCEPT !.specialRequests =
              IF isChecked THEN Append(@, requestId) ELSE Filter(@, requestId, 1)]
    /\ fnArgs' = [fnArgs EXCEPT !.lastChecked[requestId] = IF isChecked THEN "true" ELSE "false"]
    /\ UNCHANGED <<items, selectedOptions, totalItems, isDateSelectorOpen, pricing,
                   loading, dashboard, error, updateQueue>>
    /\ UNCHANGED <<envVars, attemptVars, fnRet>>

handleCustomerInfoChangeCall(key, value) ==
    /\ updateQueue' = Append(updateQueue, [set |-> "customerInfo", key |-> key, value |-> value])
    /\ UNCHANGED <<items, selectedOptions, customerInfo, totalItems, isDateSelectorOpen,
                   pricing, loading, dashboard, error>>
    /\ UNCHANGED <<envVars, attemptVars, fnVars>>

\* the queued updaters applied in order, each to the state the one before left
RECURSIVE ApplyUpdaters(_, _, _)
ApplyUpdaters(state, queue, i) ==
    IF i > Len(queue) THEN state
    ELSE LET u == queue[i]
         IN  IF u.set = "items"
             THEN ApplyUpdaters([state EXCEPT !.items[u.item] = @ + u.by], queue, i + 1)
             ELSE IF u.set = "selectedOptions"
             THEN ApplyUpdaters([state EXCEPT !.selectedOptions[u.key] = u.value], queue, i + 1)
             ELSE ApplyUpdaters([state EXCEPT !.customerInfo[u.key] = u.value], queue, i + 1)

\* the render that follows the queued updates, with the effects it triggers
Render ==
    /\ updateQueue # <<>>
    /\ LET next == ApplyUpdaters([items |-> items, selectedOptions |-> selectedOptions,
                                  customerInfo |-> customerInfo], updateQueue, 1)
       IN  /\ items' = next.items
           /\ selectedOptions' = next.selectedOptions
           /\ customerInfo' = next.customerInfo
           /\ totalItems' = TotalItemsEffect(next.items)
           /\ pricing' = PricingEffect(next.items, next.selectedOptions)
    /\ updateQueue' = <<>>
    /\ UNCHANGED <<isDateSelectorOpen, loading, dashboard, error>>
    /\ UNCHANGED <<envVars, attemptVars, fnVars>>

\* JSON.stringify of a value made of finite numbers, strings, arrays and plain
\* objects: the text is kept as the value it encodes, in a one-element list
JSONStringify(v) == <<v>>

\* an attempt in handleContinue's hands
NoAttempt == [id |-> 0, rooms |-> 0, phase |-> "Idle"]

\* a hand-off whose estimated price is that of the selection at the default options
BookingData_defaultPrice ==
    LET backendItems == mapRoomsToBackend(items)
        defaults     == [category |-> Undefined, package |-> Undefined,
                         homeSize |-> Undefined, frequency |-> Undefined]
        cleaningData ==
            [category            |-> selectedOptions.category,
             package             |-> selectedOptions.package,
             items               |-> backendItems,
             homeSize            |-> selectedOptions.homeSize,
             frequency           |-> selectedOptions.frequency,
             estimatedPrice      |-> calculateCleaningPrice(items, defaults).finalPrice,
             estimatedTime       |-> getEstimatedTime(totalItems),
             preferredTime       |-> selectedOptions.preferredTime,
             specialInstructions |-> selectedOptions.specialInstructions,
             turnaround          |-> getTurnaround(selectedOptions.category)]
    IN  [items           |-> items,
         selectedOptions |-> selectedOptions,
         pricing         |-> pricing,
         totalItems      |-> totalItems,
         cleaningData    |-> cleaningData,
         backendItems    |-> backendItems,
         customerInfo    |-> customerInfo]

\* the object handleContinue stores for the date/time step
BookingData ==
    LET backendItems == mapRoomsToBackend(items)
        cleaningData ==
            [category            |-> selectedOptions.category,
             package             |-> selectedOptions.package,
             items               |-> backendItems,
             homeSize            |-> selectedOptions.homeSize,
             frequency           |-> selectedOptions.frequency,
             estimatedPrice      |-> pricing.finalPrice,
             estimatedTime       |-> getEstimatedTime(totalItems),
             preferredTime       |-> selectedOptions.preferredTime,
             specialInstructions |-> selectedOptions.specialInstructions,
             turnaround          |-> getTurnaround(selectedOptions.category)]
    IN  [items           |-> items,
         selectedOptions |-> selectedOptions,
         pricing         |-> pricing,
         totalItems      |-> totalItems,
         cleaningData    |-> cleaningData,
         backendItems    |-> backendItems,
         customerInfo    |-> customerInfo]

\* the opening test written against a count that is never negative
NoRoomsSelected_negative == totalItems < 0

\* the test handleContinue opens with
NoRoomsSelected == totalItems = 0

\* a Continue that stores the hand-off before it validates
handleContinue_storesAlways ==
    /\ started' = started + 1
    /\ IF NoRoomsSelected
       THEN /\ error' = NoRoomsMessage
            /\ validation' = [id |-> started', rooms |-> SumOfValues(items), phase |-> "Rejected"]
            /\ storage' = [storage EXCEPT !["cleaningItems"] = JSONStringify(BookingData)]
            /\ UNCHANGED isDateSelectorOpen
       ELSE /\ error' = Null
            /\ storage' = [storage EXCEPT !["cleaningItems"] = JSONStringify(BookingData)]
            /\ isDateSelectorOpen' = TRUE
            /\ validation' = [id |-> started', rooms |-> SumOfValues(items), phase |-> "Validating"]
    /\ UNCHANGED <<items, selectedOptions, customerInfo, totalItems, pricing, loading, dashboard, updateQueue>>
    /\ UNCHANGED <<cookies, calls, fnVars>>

\* a Continue that leaves a surfaced error in place
handleContinue_keepsError ==
    /\ started' = started + 1
    /\ IF NoRoomsSelected
       THEN /\ error' = NoRoomsMessage
            /\ validation' = [id |-> started', rooms |-> SumOfValues(items), phase |-> "Rejected"]
            /\ UNCHANGED <<storage, isDateSelectorOpen>>
       ELSE /\ error' = error
            /\ storage' = [storage EXCEPT !["cleaningItems"] = JSONStringify(BookingData)]
            /\ isDateSelectorOpen' = TRUE
            /\ validation' = [id |-> started', rooms |-> SumOfValues(items), phase |-> "Validating"]
    /\ UNCHANGED <<items, selectedOptions, customerInfo, totalItems, pricing, loading, dashboard, updateQueue>>
    /\ UNCHANGED <<cookies, calls, fnVars>>

handleContinue ==
    /\ started' = started + 1
    /\ IF NoRoomsSelected
       THEN /\ error' = NoRoomsMessage
            /\ validation' = [id |-> started', rooms |-> SumOfValues(items), phase |-> "Rejected"]
            /\ UNCHANGED <<storage, isDateSelectorOpen>>
       ELSE /\ error' = Null
            /\ storage' = [storage EXCEPT !["cleaningItems"] = JSONStringify(BookingData)]
            /\ isDateSelectorOpen' = TRUE
            /\ validation' = [id |-> started', rooms |-> SumOfValues(items), phase |-> "Validating"]
    /\ UNCHANGED <<items, selectedOptions, customerInfo, totalItems, pricing, loading, dashboard, updateQueue>>
    /\ UNCHANGED <<cookies, calls, fnVars>>

\* the onClose handed to DateTimeSelector
onClose ==
    /\ isDateSelectorOpen
    /\ isDateSelectorOpen' = FALSE
    /\ UNCHANGED <<items, selectedOptions, customerInfo, totalItems, pricing, loading, dashboard, updateQueue, error>>
    /\ UNCHANGED <<envVars, attemptVars, fnVars>>

(***************************************************************************)
(* bookCleaningService                                                     *)
(***************************************************************************)
Pending == [kind |-> "pending", message |-> "", data |-> JsUndefined]
Rejected(msg) == [kind |-> "rejected", message |-> msg, data |-> JsUndefined]
Resolved(d) == [kind |-> "resolved", message |-> "", data |-> d]

\* a catch that throws a message of its own
CatchRethrow_generic(msg) == "Booking failed"

\* catch (error) { console.error(...); throw error; }
CatchRethrow(msg) == msg

ResponseOk(status) == status >= 200 /\ status <= 299

\* what the engine says when a body is no JSON, when a property of null is
\* read, and when the transport fails
SyntaxErrorMessage == "Unexpected token < in JSON at position 0"
NullPropertyMessage == "Cannot read properties of null"
FetchFailedMessage == "Failed to fetch"

\* the identity resolved before the credential is tested
Preflight_identityFirst(authToken, userData) ==
    IF userData.threw THEN Throws(userData.message)
    ELSE IF ~TruthyString(authToken) THEN Throws(AuthRequiredMessage)
    ELSE Returns(userData.value)

\* the credential never tested
Preflight_noTokenTest(authToken, userData) ==
    IF userData.threw THEN Throws(userData.message) ELSE Returns(userData.value)

\* lines 364-369: the first thing the call throws, or the user id it goes on with
Preflight(authToken, userData) ==
    IF ~TruthyString(authToken) THEN Throws(AuthRequiredMessage)
    ELSE IF userData.threw THEN Throws(userData.message)
    ELSE Returns(userData.value)

\* the code up to the first await: what the call is after it
CallStart(id, cleaningData, bookingDetails, customerInfoArg) ==
    LET authToken == getAuthToken(cookies, storage)
        checked   == Preflight(authToken, getUserData(storage))
        base      == [id |-> id, rooms |-> SumOfValues(cleaningData.items), posts |-> 0,
                      status |-> 0, body |-> <<>>, request |-> <<>>]
    IN  IF checked.threw
        THEN base @@ [phase |-> "Rejected", pc |-> "done",
                      outcome |-> Rejected(CatchRethrow(checked.message))]
        ELSE [base EXCEPT
                 !.posts = @ + 1,
                 !.request = <<[url           |-> "/api/v1/house-cleaning/create",
                                method        |-> "POST",
                                authorization |-> "Bearer " \o authToken,
                                body          |-> JSONStringify(
                                                    [user_id        |-> checked.value,
                                                     cleaningData   |-> cleaningData,
                                                     bookingDetails |-> bookingDetails,
                                                     customerInfo   |-> customerInfoArg])]>>]
             @@ [phase |-> "Submitting", pc |-> "fetch", outcome |-> Pending]

\* a failed fetch sent again
AfterFetch_retry(call, failed, status) ==
    IF failed
    THEN [call EXCEPT !.posts = @ + 1]
    ELSE [call EXCEPT !.pc = "json", !.status = status]

\* fetch settles: the transport fails, or a response with a status arrives and
\* the body is awaited (response.json(), on either branch)
AfterFetch(call, failed, status) ==
    IF failed
    THEN [call EXCEPT !.phase = "Failed", !.pc = "done",
                      !.outcome = Rejected(CatchRethrow(FetchFailedMessage))]
    ELSE [call EXCEPT !.pc = "json", !.status = status]

\* the whole parsed body returned in place of its data field
AfterJson_wholeBody(status, body) ==
    IF ~body.json THEN Rejected(CatchRethrow(SyntaxErrorMessage))
    ELSE IF body.isNull THEN Rejected(CatchRethrow(NullPropertyMessage))
    ELSE IF ~ResponseOk(status)
    THEN Rejected(CatchRethrow(IF Truthy(body.message)
                               THEN body.message.v
                               ELSE "Booking failed: " \o ToString(status)))
    ELSE Resolved(JsObject("response"))

\* the outcome once response.json() settles with the body
AfterJson(status, body) ==
    IF ~body.json THEN Rejected(CatchRethrow(SyntaxErrorMessage))
    ELSE IF body.isNull THEN Rejected(CatchRethrow(NullPropertyMessage))
    ELSE IF ~ResponseOk(status)
    THEN Rejected(CatchRethrow(IF Truthy(body.message)
                               THEN body.message.v
                               ELSE "Booking failed: " \o ToString(status)))
    ELSE Resolved(body.data)

PhaseOf(outcome) == IF outcome.kind = "resolved" THEN "Succeeded" ELSE "Failed"

FetchSettles(i, failed, status) ==
    /\ i \in 1..Len(calls)
    /\ calls[i].pc = "fetch"
    /\ calls' = [calls EXCEPT ![i] = AfterFetch(calls[i], failed, status)]
    /\ UNCHANGED <<pageVars, envVars, started, validation, fnVars>>

JsonSettles(i, body) ==
    /\ i \in 1..Len(calls)
    /\ calls[i].pc = "json"
    /\ LET outcome == AfterJson(calls[i].status, body)
       IN  calls' = [calls EXCEPT ![i] = [@ EXCEPT !.pc = "done", !.body = <<body>>,
                                                   !.outcome = outcome,
                                                   !.phase = PhaseOf(outcome)]]
    /\ UNCHANGED <<pageVars, envVars, started, validation, fnVars>>

(***************************************************************************)
(* DateTimeSelector (components/DateTimeSelector): the date/time step.     *)
(* It reads the stored booking back and hands it to its bookingService     *)
(* prop, one call at a time.                                               *)
(***************************************************************************)
CallRunning(c) == c.pc \in {"fetch", "json"}

\* a confirm button that stays enabled while a call runs
SelectorMayConfirm_noSequencing ==
    /\ isDateSelectorOpen
    /\ storage["cleaningItems"] # <<>>

\* the guard of the step's confirm button
SelectorMayConfirm ==
    /\ isDateSelectorOpen
    /\ storage["cleaningItems"] # <<>>
    /\ \A i \in 1..Len(calls) : ~CallRunning(calls[i])

DateTimeSelectorConfirm(bookingDetails) ==
    /\ SelectorMayConfirm
    /\ LET stored  == storage["cleaningItems"][1]
           resumes == validation.phase = "Validating"
           id      == IF resumes THEN validation.id ELSE started + 1
       IN  /\ started' = IF resumes THEN started ELSE started + 1
           /\ validation' = IF resumes THEN NoAttempt ELSE validation
           /\ calls' = SelectSeq(calls, CallRunning)
                          \o <<CallStart(id, stored.cleaningData, bookingDetails,
                                         stored.customerInfo)>>
    /\ UNCHANGED <<pageVars, envVars, fnVars>>

(***************************************************************************)
(* Bounds and specifications                                               *)
(***************************************************************************)
\* the largest total room count of a selection handed to the price function
MaxPriceRooms == 2

\* the largest total room count the page's counters are driven to
MaxRooms == 1

\* the number of submission attempts of one visit
MaxAttempts == 2

Selections(max) == {s \in [FrontendRooms -> 0..max] : SumOfValues(s) <= max}

PriceOptions ==
    [category : DOMAIN CLEANING_CATEGORIES, package : DOMAIN CLEANING_PACKAGES,
     homeSize : DOMAIN HOME_SIZES, frequency : DOMAIN FREQUENCIES]

\* the rooms and the option changes the booking runs click
ClickedRooms == {"Bedroom"}

\* the cookie jars, stored tokens and stored identities of the runs
CookieJars ==
    {<<>>,
     <<[name |-> "theme", parts |-> <<"dark">>], [name |-> "auth_token", parts |-> <<"tokA">>]>>,
     <<[name |-> "auth_token", parts |-> <<"">>]>>,
     <<[name |-> "auth_token", parts |-> <<"abc", "", "">>]>>}
StoredAuthTokens == {Null, "", "tokB"}
StoredTokens == {Null, "tokC"}
StoredUserData ==
    {Null, "", "<html>", "null", "{\"name\":\"Ada\"}", "{\"user_id\":\"\"}",
     "{\"user_id\":\"u1\"}", "{\"id\":\"u2\"}", "{\"user_id\":0,\"id\":7}",
     "{\"user_id\":\"u1\",\"id\":\"u9\"}"}

\* the sessions of the runs: every credential with a present and an absent
\* identity, and every identity with no credential and with the cookie's
Sessions ==
    {s \in [cookies : CookieJars, auth_token : StoredAuthTokens, token : StoredTokens,
            user_data : StoredUserData] :
        \/ s.user_data \in {Null, "{\"user_id\":\"u1\"}"}
        \/ s.auth_token = Null /\ s.token = Null /\ Len(s.cookies) \in {0, 2}}

\* what the server may answer
Statuses == {201, 404, 500}
ResponseBodies ==
    {[json |-> FALSE, isNull |-> FALSE, message |-> JsUndefined, data |-> JsUndefined],
     [json |-> TRUE, isNull |-> TRUE, message |-> JsUndefined, data |-> JsUndefined]}
    \cup [json : {TRUE}, isNull : {FALSE},
          message : {JsUndefined, JsString(""), JsString("server down")},
          data : {JsUndefined, JsNull, JsObject("b1")}]
BookingDetailsChoices == {[date |-> "2025-01-15", time |-> "10:00 AM"]}

NotCalled == [called |-> FALSE]

InitialItems == [r \in FrontendRooms |-> 0]

\* BookingsDashboard as it mounts, its effect about to call fetchBookings
EmptyList == [t |-> "array", v |-> "[]"]
DashboardMounted ==
    [bookings |-> EmptyList, loading |-> TRUE, error |-> Null,
     route |-> "/dashboard/bookings", pc |-> "effect", requests |-> <<>>,
     failed |-> FALSE, status |-> 0, body |-> <<>>]

PageInit ==
    /\ items = InitialItems
    /\ selectedOptions =
          [category |-> "Standard Cleaning", package |-> "Standard Package",
           homeSize |-> "small", frequency |-> "one-time",
           preferredTime |-> "10:00 AM - 12:00 PM", specialInstructions |-> ""]
    /\ customerInfo =
          [phone |-> "", address |-> "", notes |-> "", specialRequests |-> <<>>,
           reminders |-> [sms |-> FALSE, email |-> FALSE]]
    /\ totalItems = 0
    /\ isDateSelectorOpen = FALSE
    /\ pricing = ZeroPrice
    /\ loading = FALSE
    /\ updateQueue = <<>>
    /\ dashboard = DashboardMounted
    /\ error = Null
    /\ started = 0
    /\ validation = NoAttempt
    /\ calls = <<>>

EmptyStorage ==
    [auth_token |-> Null, token |-> Null, user_data |-> Null, cleaningItems |-> <<>>]

\* the pure price function applied to one drawn input
PriceInit ==
    /\ PageInit
    /\ cookies = <<>>
    /\ storage = EmptyStorage
    /\ fnArgs \in [items : Selections(MaxPriceRooms), options : PriceOptions]
    /\ fnRet = NotCalled

CallCalculateCleaningPrice ==
    /\ fnRet = NotCalled
    /\ fnRet' = [called |-> TRUE, value |-> calculateCleaningPrice(fnArgs.items, fnArgs.options)]
    /\ UNCHANGED <<fnArgs, pageVars, envVars, attemptVars>>

PriceNext == CallCalculateCleaningPrice

SpecPrice == PriceInit /\ [][PriceNext]_vars

\* selections and options at the edges of the price function's domain: the
\* empty selection, selections naming some labels only, a label the page does
\* not know, and option values that are missing or outside the tables
EdgeSelections ==
    {EmptyObject, InitialItems,
     [r \in {"Bedroom"} |-> 0], [r \in {"Bedroom"} |-> 1],
     [r \in {"Attic"} |-> 2], [r \in {"Bedroom", "Attic"} |-> 1],
     [r \in FrontendRooms |-> IF r = "Garage" THEN 2 ELSE 0]}
UnrecognisedValues == {"", "Unknown", "constructor"}
EdgeOptions ==
    [category  : {"Standard Cleaning", "Deep Cleaning", Undefined} \cup UnrecognisedValues,
     package   : {"Standard Package", "Luxury Package", Undefined} \cup UnrecognisedValues,
     homeSize  : {"small", "large", Undefined} \cup UnrecognisedValues,
     frequency : {"one-time", "weekly", Undefined} \cup UnrecognisedValues]

PriceEdgeInit ==
    /\ PageInit
    /\ cookies = <<>>
    /\ storage = EmptyStorage
    /\ fnArgs \in [items : EdgeSelections, options : EdgeOptions]
    /\ fnRet = NotCalled

SpecPriceEdge == PriceEdgeInit /\ [][PriceNext]_vars

\* the largest count and the number of keys of a selection handed to
\* mapRoomsToBackend
MaxMapCount == 2
MaxMapKeys == 3

\* the keys of those selections: labels of the page, a label it does not
\* know, and the name of an inherited member
MapKeys == {"Bedroom", "Terrace", "Living Room", "Attic", "constructor"}

KeyOrders(S) == {q \in [1..Cardinality(S) -> S] : \A i, j \in 1..Cardinality(S) : q[i] = q[j] => i = j}

RoomsInit ==
    /\ PageInit
    /\ cookies = <<>>
    /\ storage = EmptyStorage
    /\ \E S \in {T \in SUBSET MapKeys : Cardinality(T) <= MaxMapKeys} :
          \E f \in [S -> 0..MaxMapCount] : \E q \in KeyOrders(S) :
             fnArgs = [items |-> f, keys |-> q]
    /\ fnRet = NotCalled

CallMapRoomsToBackend ==
    /\ fnRet = NotCalled
    /\ fnRet' = [called |-> TRUE, value |-> mapRoomsToBackendInOrder(fnArgs.items, fnArgs.keys)]
    /\ UNCHANGED <<fnArgs, pageVars, envVars, attemptVars>>

RoomsNext == CallMapRoomsToBackend

SpecRooms == RoomsInit /\ [][RoomsNext]_vars

\* the number of handler calls that may precede one render, and the number
\* of times Continue is pressed
MaxBatch == 2
MaxContinues == 1

\* the room and the option changes the selection runs use
SelectionRooms == {"Bedroom"}
OptionChanges == {<<"category", "Deep Cleaning">>}
CustomerInfoChanges == {<<"phone", "0700 000 000">>}

SelectionInit ==
    /\ PageInit
    /\ cookies = <<>>
    /\ storage = EmptyStorage
    /\ fnArgs = [items |-> InitialItems]
    /\ fnRet = NotCalled

SelectionNext ==
    \/ \E item \in SelectionRooms :
          /\ Len(updateQueue) < MaxBatch
          /\ items[item] + Len(updateQueue) < MaxRooms
          /\ handleIncrementCall(item)
    \/ \E item \in SelectionRooms : Len(updateQueue) < MaxBatch /\ handleDecrementCall(item)
    \/ \E c \in OptionChanges : Len(updateQueue) < MaxBatch /\ handleOptionChangeCall(c[1], c[2])
    \/ \E c \in CustomerInfoChanges :
          Len(updateQueue) < MaxBatch /\ handleCustomerInfoChangeCall(c[1], c[2])
    \/ Render
    \/ started < MaxContinues /\ handleContinue
    \/ onClose

SpecSelection == SelectionInit /\ [][SelectionNext]_vars

\* the largest total room count handed to getEstimatedTime
MaxTimeRooms == 59

TimeInit ==
    /\ PageInit
    /\ cookies = <<>>
    /\ storage = EmptyStorage
    /\ fnArgs \in [totalItems : 0..MaxTimeRooms]
    /\ fnRet = NotCalled

CallGetEstimatedTime ==
    /\ fnRet = NotCalled
    /\ fnRet' = [called |-> TRUE, value |-> getEstimatedTime(fnArgs.totalItems)]
    /\ UNCHANGED <<fnArgs, pageVars, envVars, attemptVars>>

TimeNext == CallGetEstimatedTime

SpecTime == TimeInit /\ [][TimeNext]_vars

\* credential resolution over every cookie jar and local storage content
TokenInit ==
    /\ PageInit
    /\ cookies \in CookieJars
    /\ storage \in [auth_token : StoredAuthTokens, token : StoredTokens,
                    user_data : StoredUserData, cleaningItems : {<<>>}]
    /\ fnArgs = [items |-> InitialItems]
    /\ fnRet = NotCalled

CallGetAuthToken ==
    /\ fnRet = NotCalled
    /\ fnRet' = [called |-> TRUE, value |-> getAuthToken(cookies, storage)]
    /\ UNCHANGED <<fnArgs, pageVars, envVars, attemptVars>>

TokenNext == CallGetAuthToken

SpecToken == TokenInit /\ [][TokenNext]_vars

\* the longest list of special requests the runs build
MaxRequests == 4

\* the ids of the special-request checkboxes, and those the runs click
RequestIds ==
    {"eco-friendly", "pet-safe", "fragrance-free", "inside-appliances", "windows",
     "organization"}
ClickedRequests == {"eco-friendly", "pet-safe", "windows"}

RequestsInit ==
    /\ PageInit
    /\ cookies = <<>>
    /\ storage = EmptyStorage
    /\ fnArgs = [lastChecked |-> [id \in RequestIds |-> "never"]]
    /\ fnRet = NotCalled

RequestsNext ==
    \E requestId \in ClickedRequests : \E isChecked \in BOOLEAN :
        /\ isChecked => Len(customerInfo.specialRequests) < MaxRequests
        /\ handleSpecialRequestChange(requestId, isChecked)

SpecRequests == RequestsInit /\ [][RequestsNext]_vars

(***************************************************************************)
(* BookingsDashboard: fetchBookings, called once by the mount effect.      *)
(***************************************************************************)
\* finally { setLoading(false) }
Finally(d) == [d EXCEPT !.loading = FALSE, !.pc = "done"]

\* catch (error) { ...; setError(error.message) } followed by the finally
Caught(d, message) == Finally([d EXCEPT !.error = message])

\* lines 1140-1150: the token test and the request
BookingsStart(d, authToken) ==
    IF ~TruthyString(authToken)
    THEN Finally([d EXCEPT !.route = "/login"])
    ELSE [d EXCEPT !.pc = "fetch",
                   !.requests = Append(@, [url |-> "/api/v1/bookings", method |-> "GET",
                                           authorization |-> "Bearer " \o authToken])]

\* a fetch whose failure leaves loading set
AfterBookingsFetch_noFinally(d, failed, status) ==
    IF failed THEN [d EXCEPT !.failed = TRUE, !.error = FetchFailedMessage, !.pc = "done"]
    ELSE IF ~ResponseOk(status)
    THEN [d EXCEPT !.status = status, !.error = "Failed to fetch bookings", !.pc = "done"]
    ELSE [d EXCEPT !.status = status, !.pc = "json"]

\* lines 1146-1154: the fetch settles
AfterBookingsFetch(d, failed, status) ==
    IF failed THEN Caught([d EXCEPT !.failed = TRUE], FetchFailedMessage)
    ELSE IF ~ResponseOk(status)
    THEN Caught([d EXCEPT !.status = status], "Failed to fetch bookings")
    ELSE [d EXCEPT !.status = status, !.pc = "json"]

\* lines 1156-1157: response.json() settles
AfterBookingsJson(d, body) ==
    IF ~body.json THEN Caught([d EXCEPT !.body = <<body>>], SyntaxErrorMessage)
    ELSE IF body.isNull THEN Caught([d EXCEPT !.body = <<body>>], NullPropertyMessage)
    ELSE Finally([d EXCEPT !.body = <<body>>,
                           !.bookings = IF Truthy(body.data) THEN body.data ELSE EmptyList])

fetchBookings ==
    /\ dashboard.pc = "effect"
    /\ dashboard' = BookingsStart(dashboard, getAuthToken(cookies, storage))
    /\ UNCHANGED <<items, selectedOptions, customerInfo, totalItems, isDateSelectorOpen,
                   pricing, loading, error, updateQueue>>
    /\ UNCHANGED <<envVars, attemptVars, fnVars>>

BookingsFetchSettles(failed, status) ==
    /\ dashboard.pc = "fetch"
    /\ dashboard' = AfterBookingsFetch(dashboard, failed, status)
    /\ UNCHANGED <<items, selectedOptions, customerInfo, totalItems, isDateSelectorOpen,
                   pricing, loading, error, updateQueue>>
    /\ UNCHANGED <<envVars, attemptVars, fnVars>>

BookingsJsonSettles(body) ==
    /\ dashboard.pc = "json"
    /\ dashboard' = AfterBookingsJson(dashboard, body)
    /\ UNCHANGED <<items, selectedOptions, customerInfo, totalItems, isDateSelectorOpen,
                   pricing, loading, error, updateQueue>>
    /\ UNCHANGED <<envVars, attemptVars, fnVars>>

DashboardInit ==
    /\ PageInit
    /\ cookies \in CookieJars
    /\ storage \in [auth_token : StoredAuthTokens, token : StoredTokens,
                    user_data : {Null}, cleaningItems : {<<>>}]
    /\ fnArgs = [items |-> InitialItems]
    /\ fnRet = NotCalled

DashboardNext ==
    \/ fetchBookings
    \/ \E failed \in BOOLEAN : \E status \in Statuses : BookingsFetchSettles(failed, status)
    \/ \E body \in ResponseBodies : BookingsJsonSettles(body)

\* the transport settles every request and every reading of a body
SpecDashboard == DashboardInit /\ [][DashboardNext]_vars /\ WF_vars(DashboardNext)

\* a visit of the page: the session store is whatever the login left
BookingInit ==
    /\ PageInit
    /\ \E s \in Sessions :
          /\ cookies = s.cookies
          /\ storage = [auth_token |-> s.auth_token, token |-> s.token,
                        user_data |-> s.user_data, cleaningItems |-> <<>>]
    /\ fnArgs = [items |-> InitialItems]
    /\ fnRet = NotCalled

BookingNext ==
    \/ \E item \in ClickedRooms : SumOfValues(items) < MaxRooms /\ handleIncrement(item)
    \/ \E item \in ClickedRooms : handleDecrement(item)
    \/ started < MaxAttempts /\ handleContinue
    \/ onClose
    \/ \E d \in BookingDetailsChoices : started < MaxAttempts /\ DateTimeSelectorConfirm(d)
    \/ \E i \in 1..Len(calls) : \E failed \in BOOLEAN : \E status \in Statuses :
          FetchSettles(i, failed, status)
    \/ \E i \in 1..Len(calls) : \E body \in ResponseBodies : JsonSettles(i, body)

SpecBooking == BookingInit /\ [][BookingNext]_vars
(***************************************************************************)
(* Claims                                                                  *)
(***************************************************************************)
\* the price in exact arithmetic, rounded to the nearest integer, a half going
\* up: the product below is the discounted price times 10000
ExactRoundedPrice(category, packageName, homeSize, frequency, n) ==
    LET scaled == (CLEANING_CATEGORIES[category].basePrice
                     + n * CLEANING_CATEGORIES[category].pricePerRoom)
                  * PackageTenths[packageName] * SizeTenths[homeSize]
                  * (100 - DiscountHundredths[frequency])
    IN  (scaled + 5000) \div 10000

DeepPremiumMediumWeekly ==
    [items   |-> [r \in FrontendRooms |-> IF r \in {"Kitchen", "Bathroom"} THEN 1 ELSE 0],
     options |-> [category |-> "Deep Cleaning", package |-> "Premium Package",
                  homeSize |-> "medium", frequency |-> "weekly"]]

\* C1: for recognised options and a selection of n > 0 rooms,
\* calculateCleaningPrice returns finalPrice = round((basePrice + n *
\* pricePerRoom) * packageMultiplier * sizeMultiplier * (1 - frequencyDiscount));
\* {Kitchen:1, Bathroom:1}, Deep Cleaning, Premium Package, medium, weekly
\* gives subtotal 39900 and finalPrice 33915.
C1_FinalPriceIsRoundedProduct ==
    fnRet.called =>
        LET n == SumOfValues(fnArgs.items)
            o == fnArgs.options
        IN  /\ n > 0 =>
                 fnRet.value.finalPrice =
                    ExactRoundedPrice(o.category, o.package, o.homeSize, o.frequency, n)
            /\ fnArgs = DeepPremiumMediumWeekly =>
                 /\ fnRet.value.breakdown.subtotal = NumFromInt(39900)
                 /\ fnRet.value.finalPrice = 33915

\* the worked example of C1 alone, which the code meets
C1_WorkedExample ==
    (fnRet.called /\ fnArgs = DeepPremiumMediumWeekly) =>
        /\ fnRet.value.breakdown.subtotal = NumFromInt(39900)
        /\ fnRet.value.finalPrice = 33915
\* what the session store holds, read off the store itself
HasAuthCookie == \E i \in 1..Len(cookies) : cookies[i].name = "auth_token"

NoCredentialStored ==
    ~HasAuthCookie /\ storage["auth_token"] = Null /\ storage["token"] = Null

\* credential resolution yields a token: the first auth_token cookie's value
\* is not empty, or there is no such cookie and local storage holds a token
CredentialResolves ==
    IF HasAuthCookie
    THEN \E i \in 1..Len(cookies) :
            /\ cookies[i].name = "auth_token"
            /\ \A j \in 1..(i - 1) : cookies[j].name # "auth_token"
            /\ cookies[i].parts[1] # ""
    ELSE TruthyString(storage["auth_token"]) \/ TruthyString(storage["token"])

UsableIdentityTexts ==
    {"{\"user_id\":\"u1\"}", "{\"id\":\"u2\"}", "{\"user_id\":0,\"id\":7}",
     "{\"user_id\":\"u1\",\"id\":\"u9\"}"}

IdentityMessages ==
    {"User not found. Please log in again.", "Invalid user data. Please log in again."}

CallIndices == 1..Len(calls)

C3_NoCredentialNoRequest ==
    NoCredentialStored =>
        \A i \in CallIndices :
            /\ calls[i].outcome = Rejected(AuthRequiredMessage)
            /\ calls[i].phase = "Rejected"
            /\ calls[i].posts = 0
            /\ calls[i].request = <<>>

\* C3 witness: such a call was made with a stored identity that is malformed
C3_Witness ==
    /\ NoCredentialStored
    /\ storage["user_data"] = "<html>"
    /\ \E i \in CallIndices : calls[i].outcome.message = AuthRequiredMessage

\* C4: when credential resolution yields a token and the stored identity is
\* absent, malformed or without a usable user_id or id, every call is rejected
\* with one of the identity messages, which differ from the
\* authentication-required message, and sends nothing.
C4_BadIdentityNoRequest ==
    (CredentialResolves /\ storage["user_data"] \notin UsableIdentityTexts) =>
        \A i \in CallIndices :
            /\ calls[i].outcome.kind = "rejected"
            /\ calls[i].outcome.message \in IdentityMessages
            /\ calls[i].outcome.message # AuthRequiredMessage
            /\ calls[i].posts = 0
            /\ calls[i].request = <<>>

\* C4 witness: a call made with a token and an identity object holding no id
C4_Witness ==
    /\ CredentialResolves
    /\ storage["user_data"] = "{\"name\":\"Ada\"}"
    /\ \E i \in CallIndices : calls[i].outcome.message \in IdentityMessages

\* the message the server supplied, or else the one derived from the status
ExpectedFailureMessage(status, body) ==
    IF body.json /\ ~body.isNull /\ Truthy(body.message)
    THEN body.message.v
    ELSE "Booking failed: " \o ToString(status)

AnsweredNotOk(c) == c.pc = "done" /\ c.body # <<>> /\ ~ResponseOk(c.status)
AnsweredOk(c) == c.pc = "done" /\ c.body # <<>> /\ ResponseOk(c.status)

\* C5: for every non-2xx response the call fails, with the server's message
\* when the body carries one and otherwise with the message derived from the
\* status, also when the body is no JSON.
C5_FailureMessage ==
    \A i \in CallIndices :
        AnsweredNotOk(calls[i]) =>
            /\ calls[i].outcome.kind = "rejected"
            /\ calls[i].outcome.message =
                  ExpectedFailureMessage(calls[i].status, calls[i].body[1])

\* C6: a non-2xx response whose JSON body carries a non-empty message m
\* makes the call fail with exactly m.
C6_ServerMessagePropagated ==
    \A i \in CallIndices :
        LET c == calls[i]
        IN  (/\ AnsweredNotOk(c)
             /\ c.body[1].json /\ ~c.body[1].isNull
             /\ c.body[1].message.t = "string" /\ c.body[1].message.v # "") =>
                /\ c.outcome = Rejected(c.body[1].message.v)
                /\ c.phase = "Failed"

\* C6 witness: a 500 answered with {message: "server down"}
C6_Witness ==
    \E i \in CallIndices :
        /\ AnsweredNotOk(calls[i])
        /\ calls[i].status = 500
        /\ calls[i].body[1].json
        /\ calls[i].body[1].message = JsString("server down")

\* C7: a 2xx response whose JSON body is an object makes the call resolve to
\* exactly the body's data field.
C7_DataReturned ==
    \A i \in CallIndices :
        LET c == calls[i]
        IN  (AnsweredOk(c) /\ c.body[1].json /\ ~c.body[1].isNull) =>
                /\ c.outcome = Resolved(c.body[1].data)
                /\ c.phase = "Succeeded"

\* C7 witness: a 201 answered with {data: {id: "b1"}}
C7_Witness ==
    \E i \in CallIndices :
        /\ AnsweredOk(calls[i])
        /\ calls[i].status = 201
        /\ calls[i].body[1].json
        /\ calls[i].body[1].data = JsObject("b1")

\* C8: a call of bookCleaningService issues at most one POST, whatever its
\* outcome.
C8_AtMostOnePost ==
    \A i \in CallIndices :
        /\ calls[i].posts <= 1
        /\ calls[i].posts = Len(calls[i].request)

\* C8 witness: a call that failed, by a non-2xx response or by the transport,
\* after its one POST
C8_Witness ==
    \E i \in CallIndices :
        /\ calls[i].phase = "Failed"
        /\ calls[i].posts = 1
        /\ calls[i].outcome.message \in {FetchFailedMessage, "Booking failed: 500"}

\* the attempts a state holds, by id
Attempts(v, cs) ==
    (IF v.phase = "Idle" THEN {} ELSE {[id |-> v.id, phase |-> v.phase]})
        \cup {[id |-> cs[i].id, phase |-> cs[i].phase] : i \in 1..Len(cs)}

AttemptTransitions ==
    {<<"Validating", "Rejected">>, <<"Validating", "Submitting">>,
     <<"Submitting", "Succeeded">>, <<"Submitting", "Failed">>}

\* a step starts an attempt or moves one along the state machine
AttemptStep ==
    \A b \in Attempts(validation', calls') :
        LET before == {a \in Attempts(validation, calls) : a.id = b.id}
        IN  IF before = {}
            THEN /\ started' = started + 1
                 /\ b.id = started'
                 /\ b.phase \in {"Validating", "Rejected", "Submitting"}
            ELSE \A a \in before :
                    a.phase = b.phase \/ <<a.phase, b.phase>> \in AttemptTransitions

\* an attempt is under way only with a validated selection, a credential and
\* an identity, and it has ended exactly when its call has settled
AttemptSound ==
    \A i \in CallIndices :
        LET c == calls[i]
        IN  /\ c.phase \in {"Rejected", "Submitting", "Succeeded", "Failed"}
            /\ c.phase # "Rejected" =>
                  /\ c.rooms > 0
                  /\ CredentialResolves
                  /\ storage["user_data"] \in UsableIdentityTexts
                  /\ c.posts = 1
            /\ c.phase = "Submitting" <=> c.pc # "done"
            /\ c.phase = "Submitting" <=> c.outcome.kind = "pending"
            /\ c.phase = "Succeeded" <=> c.outcome.kind = "resolved"
            /\ c.phase \in {"Rejected", "Failed"} <=> c.outcome.kind = "rejected"

EffectiveOptions(o) ==
    [category  |-> IF o.category = Undefined THEN "Standard Cleaning" ELSE o.category,
     package   |-> IF o.package = Undefined THEN "Standard Package" ELSE o.package,
     homeSize  |-> IF o.homeSize = Undefined THEN "small" ELSE o.homeSize,
     frequency |-> IF o.frequency = Undefined THEN "one-time" ELSE o.frequency]

AllRecognised(o) ==
    /\ o.category \in DOMAIN CLEANING_CATEGORIES
    /\ o.package \in DOMAIN CLEANING_PACKAGES
    /\ o.homeSize \in DOMAIN HOME_SIZES
    /\ o.frequency \in DOMAIN FREQUENCIES

\* the selection's count over the seven labels of the page
RecognisedRoomCount(sel) ==
    SumValues(sel, DOMAIN sel \cap FrontendRooms)

IsZeroPrice(p) == DOMAIN p.breakdown = {} /\ p.finalPrice = 0

\* C11: for recognised category, package, homeSize and frequency and every
\* selection whose total room count is 0, the empty selection included,
\* calculateCleaningPrice returns finalPrice 0 and an empty breakdown.
C11_ZeroRoomsZeroPrice ==
    (/\ fnRet.called
     /\ AllRecognised(EffectiveOptions(fnArgs.options))
     /\ RecognisedRoomCount(fnArgs.items) = 0) => IsZeroPrice(fnRet.value)

\* C11 witness: the price of the empty selection under recognised options
C11_Witness ==
    /\ fnRet.called
    /\ fnArgs.items = EmptyObject
    /\ fnArgs.options = [category |-> "Deep Cleaning", package |-> "Luxury Package",
                         homeSize |-> "large", frequency |-> "weekly"]
    /\ IsZeroPrice(fnRet.value)

\* C12: when category, package, homeSize or frequency is a value outside its
\* coefficient table, calculateCleaningPrice returns finalPrice 0 and an
\* empty breakdown for every selection.
C12_UnrecognisedOptionZeroPrice ==
    (/\ fnRet.called
     /\ ~AllRecognised(EffectiveOptions(fnArgs.options))) => IsZeroPrice(fnRet.value)

\* what C12 states, for the values that are not names of inherited members
C12_PlainUnrecognisedZeroPrice ==
    (/\ fnRet.called
     /\ ~AllRecognised(EffectiveOptions(fnArgs.options))
     /\ \A f \in DOMAIN fnArgs.options : fnArgs.options[f] \notin ObjectPrototypeKeys)
        => IsZeroPrice(fnRet.value)

\* the discounted price the function computed, from the factors it reports
DiscountedPriceOf(breakdown) ==
    NumMul(breakdown.subtotal, NumSub(NumFromInt(1), breakdown.frequencyDiscount))

\* |f - x| <= 1/2 for an integer f and a Number x = m * 2^e
WithinHalf(f, x) ==
    IF x.e >= 0 THEN BigFromInt(f) = BigShl(x.m, x.e)
    ELSE LET scaled == BigShl(BigFromInt(f), -x.e)
             diff   == IF BigCmp(scaled, x.m) >= 0 THEN BigSub(scaled, x.m)
                       ELSE BigSub(x.m, scaled)
         IN  BigCmp(diff, BigShl(<<1>>, (-x.e) - 1)) <= 0

\* x has fractional part exactly .5: it is an odd number of halves
EndsInHalf(x) == x.e = -1

\* C13: finalPrice is the computed discounted price rounded to the nearest
\* integer, and when that price ends in exactly .5 finalPrice is the integer
\* above it.
C13_RoundsHalfUp ==
    (fnRet.called /\ SumOfValues(fnArgs.items) > 0) =>
        LET d == DiscountedPriceOf(fnRet.value.breakdown)
            f == fnRet.value.finalPrice
        IN  /\ WithinHalf(f, d)
            /\ fnRet.value.breakdown.total = f
            /\ EndsInHalf(d) => BigFromInt(2 * f) = BigAdd(d.m, <<1>>)

\* C13 witness: Move-in Cleaning, Standard Package, medium, monthly with one
\* room computes 32062.5 and returns 32063
C13_Witness ==
    /\ fnRet.called
    /\ SumOfValues(fnArgs.items) = 1
    /\ fnArgs.options = [category |-> "Move-in Cleaning", package |-> "Standard Package",
                         homeSize |-> "medium", frequency |-> "monthly"]
    /\ EndsInHalf(DiscountedPriceOf(fnRet.value.breakdown))
    /\ fnRet.value.finalPrice = 32063

\* C14: for every selection and every order of its keys, mapRoomsToBackend
\* returns all eight backend labels, their counts sum to the selection's
\* counts over the seven labels of the page, keys that are no such label
\* contribute nothing, Study/Office is 0, and the result does not depend on
\* the order of the keys.
C14_TranslationPreservesCounts ==
    fnRet.called =>
        /\ DOMAIN fnRet.value = BackendRooms
        /\ SumOfValues(fnRet.value) = RecognisedRoomCount(fnArgs.items)
        /\ fnRet.value["Study/Office"] = 0
        /\ \A q \in KeyOrders(DOMAIN fnArgs.items) :
              mapRoomsToBackendInOrder(fnArgs.items, q) = fnRet.value
        /\ fnRet.value = mapRoomsToBackend(fnArgs.items)

\* C14 witness: {Attic: 2, Terrace: 1, Living Room: 2} in that order gives
\* Terrace/Balcony 1 and Living Room 2 and drops the Attic
C14_Witness ==
    /\ fnRet.called
    /\ fnArgs.keys = <<"Attic", "Terrace", "Living Room">>
    /\ fnArgs.items["Attic"] = 2
    /\ fnRet.value["Terrace/Balcony"] = 1
    /\ fnRet.value["Living Room"] = 2
    /\ SumOfValues(fnRet.value) = 3

\* C15: after any sequence of increments and decrements, several decrements
\* of one room before the component renders again included, every room count
\* is at least 0.
C15_CountsNonNegative == \A r \in FrontendRooms : items[r] >= 0

\* the context held under the hand-off key is consistent in itself
StoredContextConsistent ==
    storage["cleaningItems"] # <<>> =>
        LET stored == storage["cleaningItems"][1]
        IN  /\ stored.backendItems = mapRoomsToBackend(stored.items)
            /\ stored.cleaningData.items = stored.backendItems
            /\ stored.totalItems = SumOfValues(stored.items)
            /\ stored.pricing = calculateCleaningPrice(stored.items, stored.selectedOptions)
            /\ stored.cleaningData.estimatedPrice = stored.pricing.finalPrice
            /\ stored.cleaningData.category = stored.selectedOptions.category
            /\ stored.cleaningData.package = stored.selectedOptions.package
            /\ stored.cleaningData.homeSize = stored.selectedOptions.homeSize
            /\ stored.cleaningData.frequency = stored.selectedOptions.frequency

\* the date/time step is open only after a context was stored
StoredBeforeOpened == isDateSelectorOpen => storage["cleaningItems"] # <<>>

\* a step of handleContinue on its happy path
HappyContinueStep ==
    started' = started + 1 /\ validation'.phase = "Validating" /\ totalItems > 0

\* such a step stores the state it was called in and opens the date/time step
ContinueStoresCurrent ==
    HappyContinueStep =>
        /\ storage'["cleaningItems"] # <<>>
        /\ storage'["cleaningItems"][1].items = items
        /\ storage'["cleaningItems"][1].selectedOptions = selectedOptions
        /\ storage'["cleaningItems"][1].customerInfo = customerInfo
        /\ \A k \in DOMAIN storage \ {"cleaningItems"} : storage'[k] = storage[k]
        /\ isDateSelectorOpen'

C18_EstimatedTimeFormat ==
    fnRet.called =>
        LET n == fnArgs.totalItems
        IN  /\ fnRet.value = ToString(1 + n \div 2) \o "h "
                               \o (IF n % 2 = 1 THEN "30m" ELSE "")
            /\ n = 0 => fnRet.value = "1h "
            /\ n = 1 => fnRet.value = "1h 30m"
            /\ n = 2 => fnRet.value = "2h "

\* C18 witness: two rooms give "2h ", the space kept
C18_Witness == fnRet.called /\ fnArgs.totalItems = 2 /\ fnRet.value = "2h "

\* the value of a cookie in full: its pieces with the "=" signs between them
RECURSIVE JoinParts(_, _)
JoinParts(parts, i) ==
    IF i > Len(parts) THEN ""
    ELSE IF i = Len(parts) THEN parts[i]
    ELSE parts[i] \o "=" \o JoinParts(parts, i + 1)

\* the tokens the three sources hold, in the order of resolution
StoredCookieToken ==
    IF HasAuthCookie
    THEN LET i == CHOOSE k \in 1..Len(cookies) :
                     /\ cookies[k].name = "auth_token"
                     /\ \A j \in 1..(k - 1) : cookies[j].name # "auth_token"
         IN  JoinParts(cookies[i].parts, 1)
    ELSE ""

SourceTokens == <<StoredCookieToken, storage["auth_token"], storage["token"]>>

FirstToken ==
    LET held == {i \in 1..3 : TruthyString(SourceTokens[i])}
    IN  IF held = {} THEN Null
        ELSE SourceTokens[CHOOSE i \in held : \A j \in held : i <= j]

\* C19: the credential is the first non-empty token among the auth_token
\* cookie, local storage key auth_token and local storage key token, returned
\* in full; resolution yields none only when none of the three holds one.
C19_CredentialResolution ==
    fnRet.called =>
        IF FirstToken = Null THEN ~TruthyString(fnRet.value)
        ELSE fnRet.value = FirstToken

\* the part of C19 the code meets: no step writes the credential's sources
C19_CredentialReadOnly ==
    [][/\ cookies' = cookies
       /\ storage'["auth_token"] = storage["auth_token"]
       /\ storage'["token"] = storage["token"]]_vars

\* a step of handleContinue: it begins the attempt it leaves in validation
ContinueStep == started' = started + 1 /\ validation'.id = started'

\* C20: handleContinue surfaces the no-rooms message when the total room
\* count is 0 and otherwise leaves the error null, whatever it was before.
C20_ContinueSetsOrClearsError ==
    [][ContinueStep =>
          IF totalItems = 0 THEN error' = NoRoomsMessage ELSE error' = Null]_vars

\* C20 witness: a second Continue, pressed with a room selected, has left no
\* error
C20_Witness ==
    /\ validation.id = 2
    /\ validation.phase = "Validating"
    /\ validation.rooms = 1
    /\ calls = <<>>
    /\ error = Null

\* the number of places of a list that hold id
Occurrences(list, id) == Cardinality({i \in 1..Len(list) : list[i] = id})

\* C21: after any sequence of handleSpecialRequestChange calls, repeated
\* calls with checked = true for one id included, specialRequests holds no
\* id twice, holds an id exactly when the last call for it had checked =
\* true, and holds only ids of the known list.
C21_SpecialRequestsIsSet ==
    LET list == customerInfo.specialRequests
    IN  /\ \A id \in RequestIds : Occurrences(list, id) <= 1
        /\ \A id \in RequestIds :
              Occurrences(list, id) > 0 <=> fnArgs.lastChecked[id] = "true"
        /\ \A i \in 1..Len(list) : list[i] \in RequestIds

\* what C21 states without the absence of duplicates
C21_MembershipFollowsLastCall ==
    LET list == customerInfo.specialRequests
    IN  /\ \A id \in RequestIds :
              Occurrences(list, id) > 0 <=> fnArgs.lastChecked[id] = "true"
        /\ \A i \in 1..Len(list) : list[i] \in RequestIds

\* the total validation reads and the room count pricing used are the same
TotalsAgree ==
    /\ totalItems = SumOfValues(mapRoomsToBackend(items))
    /\ DOMAIN pricing.breakdown # {} => pricing.breakdown.roomCount = totalItems
    /\ totalItems = 0 <=> pricing.finalPrice = 0

\* no stored hand-off carries a zero estimated price
HandOffPriced ==
    storage["cleaningItems"] # <<>> =>
        /\ storage["cleaningItems"][1].cleaningData.estimatedPrice # 0
        /\ storage["cleaningItems"][1].pricing.finalPrice # 0

\* handleContinue rejects exactly when the price it observes is 0
RejectsIffUnpriced ==
    ContinueStep => (validation'.phase = "Rejected" <=> pricing.finalPrice = 0)

C23_RejectionChangesErrorOnly ==
    [][(ContinueStep /\ totalItems = 0) =>
          /\ error' = NoRoomsMessage
          /\ storage' = storage
          /\ isDateSelectorOpen' = isDateSelectorOpen
          /\ UNCHANGED <<items, selectedOptions, totalItems, pricing, customerInfo,
                         loading, cookies>>]_vars

\* C23 witness: a Continue was rejected after the room of an earlier,
\* accepted one was removed; the earlier hand-off is still stored
C23_Witness ==
    /\ validation.phase = "Rejected"
    /\ validation.id = 2
    /\ error = NoRoomsMessage
    /\ items["Bedroom"] = 0
    /\ storage["cleaningItems"] # <<>>
    /\ storage["cleaningItems"][1].items["Bedroom"] = 1

\* fetchBookings has run to its end
BookingsDone == dashboard.pc = "done"

\* what a finished fetchBookings leaves, path by path
BookingsOutcome ==
    BookingsDone =>
        /\ dashboard.loading = FALSE
        /\ IF ~CredentialResolves
           THEN /\ dashboard.requests = <<>>
                /\ dashboard.route = "/login"
                /\ dashboard.bookings = EmptyList
           ELSE /\ Len(dashboard.requests) = 1
                /\ dashboard.route = "/dashboard/bookings"
                /\ IF dashboard.failed \/ ~ResponseOk(dashboard.status)
                   THEN /\ dashboard.bookings = EmptyList
                        /\ dashboard.error \in {FetchFailedMessage, "Failed to fetch bookings"}
                   ELSE LET body == dashboard.body[1]
                        IN  IF body.json /\ ~body.isNull
                            THEN /\ dashboard.error = Null
                                 /\ dashboard.bookings =
                                       IF body.data.t \in {"undefined", "null"}
                                       THEN EmptyList ELSE body.data
                            ELSE /\ dashboard.bookings = EmptyList
                                 /\ dashboard.error # Null

\* nothing is requested without a token, and nothing twice
BookingsRequests ==
    /\ Len(dashboard.requests) <= 1
    /\ dashboard.requests # <<>> => CredentialResolves

\* C24: fetchBookings always ends with loading = false, whether there is no
\* token, the response is not 2xx, the transport fails or the call succeeds;
\* without a token it requests nothing and goes to the login route; on a
\* non-2xx response or a failure the list is left as it was and the error is
\* set; on success the list is the response's data, or empty when there is
\* none.
C24_FetchBookingsEnds ==
    [](BookingsOutcome /\ BookingsRequests) /\ <>BookingsDone

\* C24 witness: a 500 has ended the call with the list empty, the error set
\* and loading false
C24_Witness ==
    /\ BookingsDone
    /\ dashboard.status = 500
    /\ dashboard.error = "Failed to fetch bookings"
    /\ dashboard.loading = FALSE
    /\ Len(dashboard.requests) = 1
====
